---- MODULE Spec2Model ----
(***************************************************************************)
(* Display-list walker of the TI-Nspire port (explicit-stack variant),     *)
(* its segment table and call stack.                                       *)
(*                                                                         *)
(* A 32-bit word is kept as two 16-bit halves [hi, lo] so that every       *)
(* uint32_t operation of the source keeps its width.  A Gfx pointer counts *)
(* in units of one Gfx: pointer p addresses cell p of Mem, and dl + 1 is   *)
(* the next cell.  Pointer 0 is NULL.                                      *)
(***************************************************************************)
EXTENDS Integers, Sequences, FiniteSets, TLC

VARIABLES
    Mem,            \* the memory holding the command buffers, cell by cell
    BufEnd,         \* cells 1..BufEnd are the command buffers
    dl,             \* the walker's cursor
    dl_stack,       \* saved return cursors
    dl_stack_top,   \* number of saved cursors
    nsp_segments,   \* segment table of the explicit-stack walker's file
    segment_table,  \* segment table of main_nsp.c
    pc,             \* IDLE, RUNNING, DONE (returned) or FAULT (trapped)
    visited,        \* cells whose command the current invocation executed
    stk_idx,        \* index of the latest access to dl_stack
    seg_idx,        \* index of the latest access to a segment table
    ret,            \* value returned by the latest nsp_segmented_to_virtual
    submitted,      \* commands handed to the renderer, in order
    drv,            \* position inside Graph_TaskSet00_Nsp
    frameskip_counter,  \* calls of the frame driver since the last render
    configFrameskip,    \* frames to skip between two rendered frames
    gGfxMasterDL,   \* root of the frame's display list, or NULL
    calls_process,  \* calls of nsp_process_display_list by the current
                    \* call of the frame driver
    selected,       \* the current call of the frame driver passed the
                    \* frame-skip test
    skipped,        \* calls of the frame driver that returned without
                    \* rendering since the last one that rendered
    trace,          \* what the current call of the frame driver has called,
                    \* in order
    main_dl,        \* cursor of the running activation of main_nsp.c's
                    \* recursive nsp_process_display_list
    main_frames,    \* its suspended activations, outermost first: the
                    \* cursor and the w0 of the G_DL each one is waiting in
    main_pc,        \* IDLE, RUNNING or DONE (the outermost one returned)
    main_visited,   \* cells whose command the recursive walker executed
    excused,        \* the two walkers have met a null-target BRANCH or a
                    \* CALL on a full dl_stack since they were started
    mq_msg,         \* OSMesgQueue: the message buffer mq->msg
    msgCount,       \* mq->msgCount
    validCount,     \* mq->validCount
    first,          \* mq->first
    mq_sent,        \* messages the queue accepted since it was created
    mq_recvd,       \* messages taken out of the queue since it was created
    mq_ret,         \* value returned by the latest queue call
    mq_out,         \* *msg of the receiving caller
    mq_idx,         \* buffer index used by the latest queue call, -1 if none
    mq_op,          \* the queue function called latest
    input,          \* the four InputCompat records of the game
    pad_n,          \* calls of PadMgr_GetInput_Nsp so far
    lock_arg,       \* lockInput of the latest PadMgr_GetInput_Nsp call
    rom_file,       \* the ROM stream: "NULL" or "open"
    rom_pos,        \* file position of the ROM stream
    ram,            \* destination buffer of the ROM reads
    rom_ret,        \* value returned by the latest nsp_rom_read
    rom_got,        \* bytes the latest nsp_rom_read call stored in ram
    dma_ret,        \* value returned by the latest DmaMgr_* call
    rom_req,        \* rom_addr and size of the latest nsp_rom_read call
    rom_op          \* the ROM function called latest

frame_vars == <<drv, frameskip_counter, configFrameskip, gGfxMasterDL,
                calls_process, selected, skipped, trace>>

main_vars == <<main_dl, main_frames, main_pc, main_visited, excused>>

mq_vars == <<mq_msg, msgCount, validCount, first, mq_sent, mq_recvd, mq_ret,
             mq_out, mq_idx, mq_op>>

pad_vars == <<input, pad_n, lock_arg>>

rom_vars == <<rom_file, rom_pos, ram, rom_ret, rom_got, dma_ret, rom_req,
              rom_op>>

stub_vars == <<mq_vars, pad_vars, rom_vars>>

vars == <<Mem, BufEnd, dl, dl_stack, dl_stack_top, nsp_segments,
          segment_table, pc, visited, stk_idx, seg_idx, ret, submitted,
          frame_vars, main_vars, stub_vars>>

(* ---------------- bounds of the model ---------------- *)
\* length of the exhaustively enumerated command buffers
ArbLen == 2
\* longest chain of nested CALLs that is built
MaxChain == 17
\* how many cells past the end of the command buffers a stray cursor is
\* followed
MaxOver == 1

(* ---------------- 32-bit words ---------------- *)
H16 == 65536

MkW(h, l) == [hi |-> h, lo |-> l]

Null == MkW(0, 0)

\* the largest unsigned int
UINT_MAX == MkW(H16 - 1, H16 - 1)

\* a <= b on unsigned 32-bit values
LeqW(a, b) == a.hi < b.hi \/ (a.hi = b.hi /\ a.lo <= b.lo)

\* uint32_t / 32-bit uintptr_t addition
Add32(a, b) ==
    LET s == a.lo + b.lo
    IN  MkW((a.hi + b.hi + (s \div H16)) % H16, s % H16)

\* dl + 1 on a Gfx pointer
PtrInc(p) == Add32(p, MkW(0, 1))

\* pointer to cell i of Mem
P(i) == MkW(0, i)

(* ---------------- GBI command ids ---------------- *)
G_SPNOOP == 0
G_MTX == 1
G_MOVEMEM == 3
G_VTX == 4
G_DL == 6
G_LOAD_UCODE == 7
G_TRI2 == 9
G_TRI1 == 12
G_ENDDL == 223
G_SETOTHERMODE_L == 226
G_SETOTHERMODE_H == 227
G_TEXRECT == 228
G_SETCIMG == 255
G_SETZIMG == 254
G_SETTIMG == 253
G_SETCOMBINE == 252
G_SETENVCOLOR == 251
G_SETPRIMCOLOR == 250
G_SETFOGCOLOR == 248
G_SETFILLCOLOR == 247
G_FILLRECT == 246
G_SETTILE == 245
G_LOADTILE == 244
G_LOADBLOCK == 243
G_SETTILESIZE == 242
G_LOADTLUT == 240
G_RDPSETOTHERMODE == 239
G_SETSCISSOR == 237
G_RDPFULLSYNC == 233
G_RDPTILESYNC == 232
G_RDPPIPESYNC == 231
G_RDPLOADSYNC == 230
G_NOOP == 192
G_POPMTX == 216
G_GEOMETRYMODE == 217
G_TEXTURE == 215
G_MW_SEGMENT == 6

DL_STACK_SIZE == 16

(* ---------------- command encoders (gbi_nsp.h) ---------------- *)
Gfx(w0, w1) == [w0 |-> w0, w1 |-> w1]

gDPNoOp == Gfx(Null, Null)

gSPDisplayList(child) == Gfx(MkW(G_DL * 256, 0), child)

\* #define gSPBranchList(pkt, dl) gSPDisplayList(pkt, dl)
gSPBranchList(child) == gSPDisplayList(child)

gSPEndDisplayList == Gfx(MkW(G_ENDDL * 256, 0), Null)

gSPVertex(vtx, n, v0) ==
    Gfx(MkW(G_VTX * 256 + ((n * 4096) \div H16),
            ((n * 4096) % H16) + ((v0 + n) * 2)), vtx)

gSPSegment(seg, base) == Gfx(MkW(G_MOVEMEM * 256, 0), base)

\* gSPTextureRectangle with 12-bit coordinates, a tile below 256 and 16-bit
\* s, t, dsdx, dtdy: the two command words it emits, in order
gSPTextureRectangle(ulx, uly, lrx, lry, tile, s, t, dsdx, dtdy) ==
    <<Gfx(MkW(G_TEXRECT * 256 + ((lrx * 4096) \div H16),
              ((lrx * 4096) % H16) + lry),
          MkW(tile * 256 + ((ulx * 4096) \div H16),
              ((ulx * 4096) % H16) + uly)),
      Gfx(MkW(s, t), MkW(dsdx, dtdy))>>

\* a G_DL word with the branch flag the walker tests for (bits 16..23 = 1)
BranchCmd(child) == Gfx(MkW(G_DL * 256 + 1, 0), child)

\* a G_MOVEMEM word in the layout the walker decodes as a segment set
SegmentCmd(offset, base) ==
    Gfx(MkW(G_MOVEMEM * 256, G_MW_SEGMENT * 256 + offset), base)

\* a word whose opcode no case of the switch names
UnknownCmd == Gfx(MkW(G_LOAD_UCODE * 256, 0), Null)

(* ---------------- command decoding (walker) ---------------- *)
\* (w0 >> 24) & 0xFF
Opcode(w0) == w0.hi \div 256

IsBranch_lowbits(w0) == (w0.lo \div 256) = 1

\* (w0 & 0x00FF0000) == 0x00010000
IsBranch(w0) == (w0.hi % 256) = 1

\* the index read one byte too high: (w0 >> 16) & 0xFF
MoveMemIndex_hi(w0) == w0.hi % 256

\* (w0 >> 8) & 0xFF
MoveMemIndex(w0) == w0.lo \div 256

\* (w0 >> 0) & 0xFF
MoveMemOffset(w0) == w0.lo % 256

RenderOps ==
    {G_VTX, G_TRI1, G_TRI2, G_MTX, G_POPMTX, G_GEOMETRYMODE, G_TEXTURE,
     G_SETCOMBINE, G_SETTIMG, G_SETTILE, G_SETTILESIZE, G_LOADBLOCK,
     G_LOADTILE, G_LOADTLUT, G_SETSCISSOR, G_SETENVCOLOR, G_SETPRIMCOLOR,
     G_SETFOGCOLOR, G_SETFILLCOLOR, G_FILLRECT, G_SETCIMG, G_SETZIMG,
     G_RDPSETOTHERMODE, G_SETOTHERMODE_L, G_SETOTHERMODE_H, G_TEXRECT}

SyncOps ==
    {G_RDPPIPESYNC, G_RDPTILESYNC, G_RDPLOADSYNC, G_RDPFULLSYNC,
     G_SPNOOP, G_NOOP}

(* ---------------- segment table ---------------- *)
SegIndex_nomask(seg) == seg

\* seg & 0xF
SegIndex(seg) == seg % 16

\* (addr >> 24) & 0xF
AddrSegment(addr) == (addr.hi \div 256) % 16

AddrOffset_nomask(addr) == addr

\* addr & 0x00FFFFFF
AddrOffset(addr) == MkW(addr.hi % 256, addr.lo)

nsp_set_segment_once(table, seg, addr) ==
    IF table[SegIndex(seg)] = Null
    THEN [table EXCEPT ![SegIndex(seg)] = addr]
    ELSE table

nsp_set_segment(table, seg, addr) ==
    [table EXCEPT ![SegIndex(seg)] = addr]

nsp_segmented_to_virtual(table, addr) ==
    LET seg == AddrSegment(addr)
        offset == AddrOffset(addr)
    IN  IF table[seg] = Null THEN offset ELSE Add32(table[seg], offset)

\* main_nsp.c: no test for an unset entry
main_segmented_to_virtual(table, addr) ==
    LET seg == AddrSegment(addr)
        offset == AddrOffset(addr)
    IN  Add32(table[seg], offset)

(* ---------------- call stack ---------------- *)
PushGuard_le(top) == top <= DL_STACK_SIZE

PushGuard(top) == top < DL_STACK_SIZE

PopGuard_gt1(top) == top > 1

PopGuard(top) == top > 0

dl_push_noinc(stack, top, v) ==
    IF PushGuard(top)
    THEN [stack |-> [i \in DOMAIN stack |-> IF i = top THEN v ELSE stack[i]],
          top |-> top, idx |-> top, hit |-> TRUE]
    ELSE [stack |-> stack, top |-> top, idx |-> 0, hit |-> FALSE]

\* dl_push: the new array, the new depth and the array index written
dl_push(stack, top, v) ==
    IF PushGuard(top)
    THEN [stack |-> [i \in DOMAIN stack |-> IF i = top THEN v ELSE stack[i]],
          top |-> top + 1, idx |-> top, hit |-> TRUE]
    ELSE [stack |-> stack, top |-> top, idx |-> 0, hit |-> FALSE]

dl_pop_first(stack, top) ==
    IF PopGuard(top)
    THEN [val |-> stack[0], top |-> top - 1, idx |-> 0, hit |-> TRUE]
    ELSE [val |-> Null, top |-> top, idx |-> 0, hit |-> FALSE]

\* a pop that leaves the entry it returns on the stack
dl_pop_peek(stack, top) ==
    IF PopGuard(top)
    THEN [val |-> IF (top - 1) \in DOMAIN stack THEN stack[top - 1] ELSE Null,
          top |-> top, idx |-> top - 1, hit |-> TRUE]
    ELSE [val |-> Null, top |-> top, idx |-> 0, hit |-> FALSE]

\* dl_pop: the value returned, the new depth and the array index read
dl_pop(stack, top) ==
    IF PopGuard(top)
    THEN [val |-> IF (top - 1) \in DOMAIN stack THEN stack[top - 1] ELSE Null,
          top |-> top - 1, idx |-> top - 1, hit |-> TRUE]
    ELSE [val |-> Null, top |-> top, idx |-> 0, hit |-> FALSE]

(* ---------------- command buffers ---------------- *)
\* cells 1..BufEnd of Mem are the command buffers; the cells after them are
\* whatever else the memory holds there
InBuf(p) == p.hi = 0 /\ p.lo \in 1..BufEnd

InMem(p) == p.hi = 0 /\ p.lo \in 1..Len(Mem)

\* what the memory after the command buffers may hold
Garbage == {gSPEndDisplayList, gSPDisplayList(P(1)), gDPNoOp}

\* the command read at cursor p
Fetch(p) == IF InMem(p) THEN {Mem[p.lo]} ELSE {}

ArbCmds ==
    {gSPEndDisplayList, gSPVertex(Null, 1, 0), SegmentCmd(252, P(2)),
     gDPNoOp}
    \cup {gSPDisplayList(P(t)) : t \in 0..ArbLen}
    \cup {BranchCmd(P(t)) : t \in 0..ArbLen}

ArbPrograms == [1..ArbLen -> ArbCmds]

\* n nested CALLs: buffer k is [CALL(buffer k+1), RENDER, END], the
\* innermost buffer is [RENDER, END]
ChainProgram(n) ==
    [i \in 1..(3 * n + 2) |->
        IF i > 3 * n
        THEN (IF i = 3 * n + 1 THEN gSPVertex(Null, 1, 0)
              ELSE gSPEndDisplayList)
        ELSE (IF i % 3 = 1 THEN gSPDisplayList(P(i + 3))
              ELSE IF i % 3 = 2 THEN gSPVertex(Null, 1, 0)
              ELSE gSPEndDisplayList)]

ChainPrograms == {ChainProgram(n) : n \in 0..MaxChain}

\* one command of every kind of the switch
SamplerProgram ==
    <<gDPNoOp, UnknownCmd, gSPSegment(1, P(2)), SegmentCmd(68, P(3)),
      SegmentCmd(252, P(2)), gSPVertex(P(1), 1, 0), gSPEndDisplayList>>

\* a CALL whose target word names segment 1, which the stream has set
SegCallProgram ==
    <<SegmentCmd(4, P(2)), gSPDisplayList(MkW(256, 1)),
      gSPVertex(Null, 1, 0), gSPEndDisplayList>>

\* two render commands with segmented address operands, then END
RenderProgram ==
    <<gSPVertex(MkW(256, 32), 1, 0), gSPVertex(MkW(256, 64), 1, 0),
      gSPEndDisplayList>>

\* s, t, dsdx and dtdy of the texture rectangles that are drawn: s = 0;
\* s = 0xDF00 (-264 texels in s10.5); s = 0x0600 and 0x0601 (48 texels);
\* s = 0x0300 (24 texels) with t = 0x0604
TexRectArgs ==
    {<<0, 0, 1024, 1024>>, <<57088, 0, 1024, 1024>>, <<1536, 0, 0, 4>>,
     <<1537, 0, 0, 4>>, <<768, 1540, 0, 4>>}

\* a texture rectangle, a vertex load, END
TexRectPrograms ==
    {gSPTextureRectangle(0, 0, 64, 64, 0, a[1], a[2], a[3], a[4])
        \o <<gSPVertex(Null, 1, 0), gSPEndDisplayList>> : a \in TexRectArgs}

Programs ==
    ArbPrograms \cup ChainPrograms
        \cup {SamplerProgram, SegCallProgram, RenderProgram}
        \cup TexRectPrograms

Roots == {P(1), P(2)}

(* ---------------- initial state ---------------- *)
\* static uint32_t frameskip_counter = 0; the configuration and the master
\* display list are set by the game before the first frame
FrameInit(skips, masters) ==
    /\ drv = "idle"
    /\ frameskip_counter = MkW(0, 0)
    /\ configFrameskip \in skips
    /\ gGfxMasterDL \in masters
    /\ calls_process = 0
    /\ selected = FALSE
    /\ skipped = MkW(0, 0)
    /\ trace = <<>>

\* the queue structure before osCreateMesgQueue: static storage, all zero
MqInit ==
    /\ mq_msg = <<>>
    /\ msgCount = 0
    /\ validCount = 0
    /\ first = 0
    /\ mq_sent = <<>>
    /\ mq_recvd = <<>>
    /\ mq_ret = 0
    /\ mq_out = 0
    /\ mq_idx = -1
    /\ mq_op = "none"

\* an InputCompat whose bytes are all zero
ZeroInput ==
    [cur_button |-> {}, cur_x |-> 0, cur_y |-> 0, errno_ |-> 0,
     prev_button |-> {}, prev_x |-> 0, prev_y |-> 0, prev_errno |-> 0,
     press_button |-> {}, press_x |-> 0, press_y |-> 0,
     rel_button |-> {}, rel_x |-> 0, rel_y |-> 0]

\* the game's four input records hold whatever the game left in them
PadInit(records) ==
    /\ input \in [0..3 -> records]
    /\ pad_n = 0
    /\ lock_arg = 0

\* static FILE* rom_file = NULL;
RomInit ==
    /\ rom_file = "NULL"
    /\ rom_pos = 0
    /\ ram = <<0, 0, 0, 0>>
    /\ rom_ret = 0
    /\ rom_got = 0
    /\ dma_ret = 0
    /\ rom_req = [addr |-> MkW(0, 0), size |-> 0]
    /\ rom_op = "none"

StubInit == MqInit /\ PadInit({ZeroInput}) /\ RomInit

WalkerState(progs) ==
    /\ \E p \in progs, g \in [1..MaxOver -> Garbage] :
          /\ Mem = p \o g
          /\ BufEnd = Len(p)
    /\ dl = Null
    /\ dl_stack = [i \in 0..(DL_STACK_SIZE - 1) |-> Null]
    /\ dl_stack_top = 0
    /\ nsp_segments = [i \in 0..15 |-> Null]
    /\ pc = "IDLE"
    /\ segment_table = [i \in 0..15 |-> Null]
    /\ visited = {}
    /\ stk_idx = 0
    /\ seg_idx = 0
    /\ ret = Null
    /\ submitted = <<>>
    /\ main_dl = Null
    /\ main_frames = <<>>
    /\ main_pc = "IDLE"
    /\ main_visited = {}
    /\ excused = FALSE

WalkerInit(progs) == WalkerState(progs) /\ StubInit

InitWith(progs) == WalkerInit(progs) /\ FrameInit({MkW(0, 0)}, {Null})

Init == InitWith(Programs)

(* ---------------- nsp_process_display_list ---------------- *)
Idle == pc \in {"IDLE", "DONE"}

\* if (!dl) return;
StartNull ==
    /\ Idle
    /\ dl' = Null
    /\ visited' = {}
    /\ pc' = "DONE"
    /\ UNCHANGED <<Mem, BufEnd, dl_stack, dl_stack_top, nsp_segments,
                   segment_table, stk_idx, seg_idx, ret>>
    /\ UNCHANGED <<submitted, frame_vars, main_vars, stub_vars>>

\* an entry that keeps the root as the bottom frame of the call stack
ProcessEntry_rootframe(root) ==
    /\ root # Null
    /\ dl' = root
    /\ dl_stack' = [dl_stack EXCEPT ![0] = root]
    /\ dl_stack_top' = 1
    /\ pc' = "RUNNING"
    /\ visited' = {}
    /\ UNCHANGED <<Mem, BufEnd, nsp_segments, segment_table,
                   stk_idx, seg_idx, ret, submitted>>

\* an entry that clears the segment table of the previous frame
ProcessEntry_clear(root) ==
    /\ root # Null
    /\ dl' = root
    /\ dl_stack_top' = 0
    /\ pc' = "RUNNING"
    /\ visited' = {}
    /\ nsp_segments' = [i \in 0..15 |-> Null]
    /\ UNCHANGED <<Mem, BufEnd, dl_stack, segment_table,
                   stk_idx, seg_idx, ret, submitted>>

\* dl_stack_top = 0; while (1) ...
ProcessEntry(root) ==
    /\ root # Null
    /\ dl' = root
    /\ dl_stack_top' = 0
    /\ pc' = "RUNNING"
    /\ visited' = {}
    /\ UNCHANGED <<Mem, BufEnd, dl_stack, nsp_segments, segment_table,
                   stk_idx, seg_idx, ret, submitted>>

\* a call of nsp_process_display_list(root) outside the frame driver
Start(root) ==
    /\ Idle
    /\ ProcessEntry(root)
    /\ UNCHANGED <<frame_vars, main_vars, stub_vars>>

\* an END that returns from the walker whatever the stack holds
CaseEndDL_return ==
    /\ pc = "RUNNING"
    /\ \E c \in Fetch(dl) :
        /\ Opcode(c.w0) = G_ENDDL
        /\ visited' = visited \cup {dl.lo}
    /\ pc' = "DONE"
    /\ UNCHANGED <<Mem, BufEnd, dl, dl_stack, dl_stack_top, nsp_segments,
                   segment_table, stk_idx, seg_idx, ret>>
    /\ UNCHANGED submitted

\* case G_ENDDL
CaseEndDL ==
    /\ pc = "RUNNING"
    /\ \E c \in Fetch(dl) :
        /\ Opcode(c.w0) = G_ENDDL
        /\ visited' = visited \cup {dl.lo}
        /\ LET r == dl_pop(dl_stack, dl_stack_top)
           IN  /\ dl_stack_top' = r.top
               /\ stk_idx' = IF r.hit THEN r.idx ELSE stk_idx
               /\ IF r.val # Null
                  THEN dl' = r.val /\ pc' = "RUNNING"
                  ELSE dl' = dl /\ pc' = "DONE"
    /\ UNCHANGED <<Mem, BufEnd, dl_stack, nsp_segments, segment_table,
                   seg_idx, ret>>
    /\ UNCHANGED submitted

StepEndDL == CaseEndDL /\ UNCHANGED <<frame_vars, main_vars, stub_vars>>

\* a G_DL that ends the walk when its target is NULL
CaseDL_nullstop ==
    /\ pc = "RUNNING"
    /\ \E c \in Fetch(dl) :
        /\ Opcode(c.w0) = G_DL
        /\ visited' = visited \cup {dl.lo}
        /\ IF c.w1 # Null
           THEN /\ dl' = c.w1
                /\ pc' = "RUNNING"
                /\ IF ~IsBranch(c.w0)
                   THEN LET r == dl_push(dl_stack, dl_stack_top, PtrInc(dl))
                        IN  /\ dl_stack' = r.stack
                            /\ dl_stack_top' = r.top
                            /\ stk_idx' = IF r.hit THEN r.idx ELSE stk_idx
                   ELSE UNCHANGED <<dl_stack, dl_stack_top, stk_idx>>
           ELSE /\ dl' = dl
                /\ pc' = "DONE"
                /\ UNCHANGED <<dl_stack, dl_stack_top, stk_idx>>
    /\ UNCHANGED <<Mem, BufEnd, nsp_segments, segment_table, seg_idx, ret>>
    /\ UNCHANGED submitted

\* case G_DL
CaseDL ==
    /\ pc = "RUNNING"
    /\ \E c \in Fetch(dl) :
        /\ Opcode(c.w0) = G_DL
        /\ visited' = visited \cup {dl.lo}
        /\ IF c.w1 # Null
           THEN /\ dl' = c.w1
                /\ IF ~IsBranch(c.w0)
                   THEN LET r == dl_push(dl_stack, dl_stack_top, PtrInc(dl))
                        IN  /\ dl_stack' = r.stack
                            /\ dl_stack_top' = r.top
                            /\ stk_idx' = IF r.hit THEN r.idx ELSE stk_idx
                   ELSE UNCHANGED <<dl_stack, dl_stack_top, stk_idx>>
           ELSE /\ dl' = PtrInc(dl)
                /\ UNCHANGED <<dl_stack, dl_stack_top, stk_idx>>
    /\ UNCHANGED <<Mem, BufEnd, nsp_segments, segment_table, pc, seg_idx, ret>>
    /\ UNCHANGED submitted

StepDL == CaseDL /\ UNCHANGED <<frame_vars, main_vars, stub_vars>>

\* case G_MOVEMEM
CaseMoveMem ==
    /\ pc = "RUNNING"
    /\ \E c \in Fetch(dl) :
        /\ Opcode(c.w0) = G_MOVEMEM
        /\ visited' = visited \cup {dl.lo}
        /\ IF MoveMemIndex(c.w0) = G_MW_SEGMENT
           THEN LET seg_id == MoveMemOffset(c.w0) \div 4
                IN  /\ nsp_segments' = nsp_set_segment(nsp_segments, seg_id, c.w1)
                    /\ seg_idx' = SegIndex(seg_id)
           ELSE UNCHANGED <<nsp_segments, seg_idx>>
    /\ dl' = PtrInc(dl)
    /\ UNCHANGED <<Mem, BufEnd, dl_stack, dl_stack_top, segment_table, pc,
                   stk_idx, ret>>
    /\ UNCHANGED submitted

StepMoveMem == CaseMoveMem /\ UNCHANGED <<frame_vars, main_vars, stub_vars>>

\* the render opcodes: nothing is done with them yet
CaseRender ==
    /\ pc = "RUNNING"
    /\ \E c \in Fetch(dl) :
        /\ Opcode(c.w0) \in RenderOps
        /\ visited' = visited \cup {dl.lo}
    /\ dl' = PtrInc(dl)
    /\ UNCHANGED <<Mem, BufEnd, dl_stack, dl_stack_top, nsp_segments,
                   segment_table, pc, stk_idx, seg_idx, ret>>
    \* the render cases only break: nothing reaches the renderer
    /\ UNCHANGED submitted

StepRender == CaseRender /\ UNCHANGED <<frame_vars, main_vars, stub_vars>>

\* the sync and no-op opcodes
CaseSync ==
    /\ pc = "RUNNING"
    /\ \E c \in Fetch(dl) :
        /\ Opcode(c.w0) \in SyncOps
        /\ visited' = visited \cup {dl.lo}
    /\ dl' = PtrInc(dl)
    /\ UNCHANGED <<Mem, BufEnd, dl_stack, dl_stack_top, nsp_segments,
                   segment_table, pc, stk_idx, seg_idx, ret>>
    /\ UNCHANGED submitted

StepSync == CaseSync /\ UNCHANGED <<frame_vars, main_vars, stub_vars>>

\* a default case that gives up the walk on an opcode it does not know
StepDefault_stop ==
    /\ pc = "RUNNING"
    /\ \E c \in Fetch(dl) :
        /\ Opcode(c.w0) \notin
             ({G_ENDDL, G_DL, G_MOVEMEM} \cup RenderOps \cup SyncOps)
        /\ visited' = visited \cup {dl.lo}
    /\ pc' = "DONE"
    /\ UNCHANGED <<Mem, BufEnd, dl, dl_stack, dl_stack_top, nsp_segments,
                   segment_table, stk_idx, seg_idx, ret>>
    /\ UNCHANGED <<submitted, frame_vars, main_vars, stub_vars>>

\* default:
CaseDefault ==
    /\ pc = "RUNNING"
    /\ \E c \in Fetch(dl) :
        /\ Opcode(c.w0) \notin
             ({G_ENDDL, G_DL, G_MOVEMEM} \cup RenderOps \cup SyncOps)
        /\ visited' = visited \cup {dl.lo}
    /\ dl' = PtrInc(dl)
    /\ UNCHANGED <<Mem, BufEnd, dl_stack, dl_stack_top, nsp_segments,
                   segment_table, pc, stk_idx, seg_idx, ret>>
    /\ UNCHANGED submitted

StepDefault == CaseDefault /\ UNCHANGED <<frame_vars, main_vars, stub_vars>>

\* dl->w0 read outside every command buffer: the read may also trap
StepFault ==
    /\ pc = "RUNNING"
    /\ ~InBuf(dl)
    /\ pc' = "FAULT"
    /\ UNCHANGED <<Mem, BufEnd, dl, dl_stack, dl_stack_top, nsp_segments,
                   segment_table, visited, stk_idx, seg_idx, ret>>
    /\ UNCHANGED <<submitted, frame_vars, main_vars, stub_vars>>

(* ---------------- the segment table called directly ---------------- *)
\* arguments the callers are given here
SegArgs == {1, 17, 63}

\* 0, 0x1000, 0xFFFFFFF0
BaseArgs == {Null, MkW(0, 4096), MkW(65535, 65520)}

\* 0x01000020, 0xF1FFFFFF, 0x0F000001
EncodedArgs == {MkW(256, 32), MkW(61951, 65535), MkW(3840, 1)}

\* nsp_set_segment of the explicit-stack walker's file
SetSegment(seg, addr) ==
    /\ Idle
    /\ nsp_segments' = nsp_set_segment(nsp_segments, seg, addr)
    /\ seg_idx' = SegIndex(seg)
    /\ UNCHANGED <<Mem, BufEnd, dl, dl_stack, dl_stack_top, segment_table,
                   pc, visited, stk_idx, ret>>
    /\ UNCHANGED <<submitted, frame_vars, main_vars, stub_vars>>

\* nsp_segmented_to_virtual of the explicit-stack walker's file
SegmentedToVirtual(addr) ==
    /\ Idle
    /\ ret' = nsp_segmented_to_virtual(nsp_segments, addr)
    /\ seg_idx' = AddrSegment(addr)
    /\ UNCHANGED <<Mem, BufEnd, dl, dl_stack, dl_stack_top, nsp_segments,
                   segment_table, pc, visited, stk_idx>>
    /\ UNCHANGED <<submitted, frame_vars, main_vars, stub_vars>>

\* nsp_set_segment of main_nsp.c
MainSetSegment(seg, addr) ==
    /\ Idle
    /\ segment_table' = nsp_set_segment(segment_table, seg, addr)
    /\ seg_idx' = SegIndex(seg)
    /\ UNCHANGED <<Mem, BufEnd, dl, dl_stack, dl_stack_top, nsp_segments,
                   pc, visited, stk_idx, ret>>
    /\ UNCHANGED <<submitted, frame_vars, main_vars, stub_vars>>

\* nsp_segmented_to_virtual of main_nsp.c
MainSegmentedToVirtual(addr) ==
    /\ Idle
    /\ ret' = main_segmented_to_virtual(segment_table, addr)
    /\ seg_idx' = AddrSegment(addr)
    /\ UNCHANGED <<Mem, BufEnd, dl, dl_stack, dl_stack_top, nsp_segments,
                   segment_table, pc, visited, stk_idx>>
    /\ UNCHANGED <<submitted, frame_vars, main_vars, stub_vars>>

Next ==
    \/ StartNull
    \/ \E root \in Roots : Start(root)
    \/ StepEndDL
    \/ StepDL
    \/ StepMoveMem
    \/ StepRender
    \/ StepSync
    \/ StepDefault
    \/ StepFault

Spec == Init /\ [][Next]_vars

(* the walker together with direct calls of the segment-table functions, *)
(* on a few streams that set segments                                    *)
\* a stream with no END
OpenProgram == <<SegmentCmd(4, MkW(0, 4096)), gSPDisplayList(P(3)), gDPNoOp>>

SegPrograms == {SamplerProgram, OpenProgram}

InitSeg == InitWith(SegPrograms)

NextSeg ==
    \/ Next
    \/ \E seg \in SegArgs, addr \in BaseArgs : SetSegment(seg, addr)
    \/ \E addr \in EncodedArgs : SegmentedToVirtual(addr)
    \/ \E seg \in SegArgs, addr \in BaseArgs : MainSetSegment(seg, addr)
    \/ \E addr \in EncodedArgs : MainSegmentedToVirtual(addr)

SpecSeg == InitSeg /\ [][NextSeg]_vars

\* the walker's loop never stops between two commands
Walk ==
    StepEndDL \/ StepDL \/ StepMoveMem \/ StepRender \/ StepSync \/ StepDefault

FairSpec == Init /\ [][Next]_vars /\ WF_vars(Walk)

(* ---------------- Graph_TaskSet00_Nsp, the frame driver ---------------- *)
\* largest configFrameskip that is tried
MaxSkip == 2

walker_vars ==
    <<Mem, BufEnd, dl, dl_stack, dl_stack_top, nsp_segments, segment_table,
      pc, visited, stk_idx, seg_idx, ret, submitted, main_vars, stub_vars>>

\* single calls of the driver are followed from the counter values a small
\* configFrameskip allows and from the last values before the counter
\* wraps; the values in between are crossed by runs of skipped calls
InWindow(counter) ==
    \/ counter.hi = 0 /\ counter.lo <= MaxSkip + 1
    \/ counter.hi = H16 - 1 /\ counter.lo >= H16 - 3

\* a test that lets the frame through one call early
SkipFrame_lt(counter, skip) == ~LeqW(skip, counter)

\* frameskip_counter <= configFrameskip
SkipFrame(counter, skip) == LeqW(counter, skip)

\* a driver whose frame-skip test has lost its return
Graph_TaskSet00_Nsp_Enter_noreturn ==
    /\ drv = "idle"
    /\ InWindow(frameskip_counter)
    /\ selected' =
          ~SkipFrame(Add32(frameskip_counter, MkW(0, 1)), configFrameskip)
    /\ frameskip_counter' = MkW(0, 0)
    /\ drv' = "process"
    /\ calls_process' = 0
    /\ skipped' = MkW(0, 0)
    /\ trace' = <<>>
    /\ UNCHANGED <<configFrameskip, gGfxMasterDL, walker_vars>>

\* frameskip_counter++; if (frameskip_counter <= configFrameskip) return;
\* frameskip_counter = 0;
Graph_TaskSet00_Nsp_Enter ==
    /\ drv = "idle"
    /\ InWindow(frameskip_counter)
    /\ LET c == Add32(frameskip_counter, MkW(0, 1))
       IN  /\ selected' = ~SkipFrame(c, configFrameskip)
           /\ IF SkipFrame(c, configFrameskip)
              THEN /\ frameskip_counter' = c
                   /\ drv' = "idle"
                   /\ skipped' = Add32(skipped, MkW(0, 1))
              ELSE /\ frameskip_counter' = MkW(0, 0)
                   /\ drv' = "process"
                   /\ skipped' = MkW(0, 0)
    /\ calls_process' = 0
    /\ trace' = <<>>
    /\ UNCHANGED <<configFrameskip, gGfxMasterDL, walker_vars>>

\* how many calls in a row are taken in one step
LongRuns == {MkW(H16 - 1, H16 - 2)}

\* n calls of the driver in a row, every one of which takes the early
\* return: the counter does not wrap on the way and is still <=
\* configFrameskip after the last of them
Graph_TaskSet00_Nsp_Skips(n) ==
    /\ drv = "idle"
    /\ LET c == Add32(frameskip_counter, n)
       IN  /\ LeqW(frameskip_counter, c)
           /\ SkipFrame(c, configFrameskip)
           /\ frameskip_counter' = c
    /\ skipped' = Add32(skipped, n)
    /\ selected' = FALSE
    /\ calls_process' = 0
    /\ trace' = <<>>
    /\ UNCHANGED <<drv, configFrameskip, gGfxMasterDL, walker_vars>>

\* if (gGfxMasterDL != NULL) nsp_process_display_list((Gfx*)gGfxMasterDL);
Graph_TaskSet00_Nsp_Call ==
    /\ drv = "process"
    /\ gGfxMasterDL # Null
    /\ ProcessEntry(gGfxMasterDL)
    /\ calls_process' = calls_process + 1
    /\ trace' = Append(trace, "nsp_process_display_list")
    /\ drv' = "walking"
    /\ UNCHANGED <<frameskip_counter, configFrameskip, gGfxMasterDL, selected,
                   skipped, main_vars,
                   stub_vars>>

\* gGfxMasterDL == NULL: the call is left out
Graph_TaskSet00_Nsp_NoCall ==
    /\ drv = "process"
    /\ gGfxMasterDL = Null
    /\ drv' = "swap_begin"
    /\ UNCHANGED <<frameskip_counter, configFrameskip, gGfxMasterDL,
                   calls_process, selected, skipped, trace, walker_vars>>

\* nsp_process_display_list has returned
Graph_TaskSet00_Nsp_Returned ==
    /\ drv = "walking"
    /\ pc = "DONE"
    /\ drv' = "swap_begin"
    /\ trace' = Append(trace, "return")
    /\ UNCHANGED <<frameskip_counter, configFrameskip, gGfxMasterDL,
                   calls_process, selected, skipped, walker_vars>>

\* a driver that commits the swap where it should begin it
Graph_TaskSet00_Nsp_SwapBegin_end ==
    /\ drv = "swap_begin"
    /\ drv' = "swap_end"
    /\ trace' = Append(trace, "nsp_swap_buffers_end")
    /\ UNCHANGED <<frameskip_counter, configFrameskip, gGfxMasterDL,
                   calls_process, selected, skipped, walker_vars>>

\* nsp_swap_buffers_begin();
Graph_TaskSet00_Nsp_SwapBegin ==
    /\ drv = "swap_begin"
    /\ drv' = "swap_end"
    /\ trace' = Append(trace, "nsp_swap_buffers_begin")
    /\ UNCHANGED <<frameskip_counter, configFrameskip, gGfxMasterDL,
                   calls_process, selected, skipped, walker_vars>>

\* nsp_swap_buffers_end(); and the driver returns
Graph_TaskSet00_Nsp_SwapEnd ==
    /\ drv = "swap_end"
    /\ drv' = "idle"
    /\ trace' = Append(trace, "nsp_swap_buffers_end")
    /\ UNCHANGED <<frameskip_counter, configFrameskip, gGfxMasterDL,
                   calls_process, selected, skipped, walker_vars>>

\* the display lists the frames are given
FramePrograms ==
    {SamplerProgram, OpenProgram, ChainProgram(1), RenderProgram}

InitFrame ==
    /\ WalkerInit(FramePrograms)
    /\ FrameInit({MkW(0, k) : k \in 0..MaxSkip} \cup {UINT_MAX}, {Null, P(1)})

NextFrame ==
    \/ Graph_TaskSet00_Nsp_Enter
    \/ \E n \in LongRuns : Graph_TaskSet00_Nsp_Skips(n)
    \/ Graph_TaskSet00_Nsp_Call
    \/ Graph_TaskSet00_Nsp_NoCall
    \/ Graph_TaskSet00_Nsp_Returned
    \/ Graph_TaskSet00_Nsp_SwapBegin
    \/ Graph_TaskSet00_Nsp_SwapEnd
    \/ StepEndDL
    \/ StepDL
    \/ StepMoveMem
    \/ StepRender
    \/ StepSync
    \/ StepDefault
    \/ StepFault

SpecFrame == InitFrame /\ [][NextFrame]_vars

TypeOK ==
    /\ pc \in {"IDLE", "RUNNING", "DONE", "FAULT"}
    /\ dl_stack_top \in Nat
    /\ BufEnd \in 1..Len(Mem)
    /\ visited \subseteq 1..Len(Mem)
    /\ drv \in {"idle", "process", "walking", "swap_begin", "swap_end"}
    /\ LeqW(frameskip_counter, configFrameskip)
    /\ configFrameskip.hi \in 0..(H16 - 1) /\ configFrameskip.lo \in 0..(H16 - 1)
    /\ calls_process \in Nat
    /\ selected \in BOOLEAN
    /\ main_pc \in {"IDLE", "RUNNING", "DONE"}
    /\ \A k \in DOMAIN main_frames : main_frames[k].dl.lo \in 1..Len(Mem)
    /\ main_visited \subseteq 1..Len(Mem)
    /\ excused \in BOOLEAN

(* ======================= properties ======================= *)
\* the cursor is at a command that can be read
AtCmd == pc = "RUNNING" /\ dl.hi = 0 /\ dl.lo \in 1..Len(Mem)

Cur == Mem[dl.lo]

\* this step executes the command at the cursor
Exec == AtCmd /\ pc' # "FAULT"

Succ(p) == [hi |-> p.hi, lo |-> p.lo + 1]

IsEndCmd(c) == c.w0.hi \div 256 = G_ENDDL

IsDLCmd(c) == c.w0.hi \div 256 = G_DL

IsBranchCmd(c) == IsDLCmd(c) /\ c.w0.hi % 256 = 1

IsCallCmd(c) == IsDLCmd(c) /\ c.w0.hi % 256 # 1 /\ c.w1 # Null

\* the command buffers are exactly the chain of n nested CALLs
IsChain(n) == BufEnd = 3 * n + 2 /\ SubSeq(Mem, 1, BufEnd) = ChainProgram(n)

\* C1: a CALL with a non-null target executed at depth < 16 saves the
\* cursor of the command after it on top of the stack and goes to its
\* target; saved cursors below the top are never altered; and an END met
\* with a non-empty stack resumes at the cursor on top, that is at the
\* command following the latest CALL that has not returned yet.
C1_CallReturns ==
    [][ /\ (Exec /\ IsCallCmd(Cur) /\ dl_stack_top < DL_STACK_SIZE)
            => /\ dl' = Cur.w1
               /\ pc' = "RUNNING"
               /\ dl_stack_top' = dl_stack_top + 1
               /\ dl_stack'[dl_stack_top] = Succ(dl)
        /\ (Exec /\ IsEndCmd(Cur) /\ dl_stack_top > 0)
            => dl' = dl_stack[dl_stack_top - 1]
        /\ \A i \in 0..(DL_STACK_SIZE - 1) :
              (i < dl_stack_top /\ i < dl_stack_top')
                  => dl_stack'[i] = dl_stack[i]
      ]_vars

\* parent [CALL(child), RENDER(y), END], child [RENDER(x), END]: the walker
\* is at y after the call returned, x already visited
C1_Witness ==
    /\ IsChain(1)
    /\ pc = "RUNNING"
    /\ dl = P(2)
    /\ dl_stack_top = 0
    /\ visited = {1, 4, 5}

\* C2 (as amended): a BRANCH with a non-null target goes to its target and
\* leaves the call stack as it is, so nothing returns to the branching
\* stream on its account; and an END met with an empty stack ends the
\* invocation.
C2_BranchNoReturn ==
    [][ /\ (Exec /\ IsBranchCmd(Cur) /\ Cur.w1 # Null)
            => /\ dl' = Cur.w1
               /\ pc' = "RUNNING"
               /\ UNCHANGED <<dl_stack, dl_stack_top>>
        /\ (Exec /\ IsEndCmd(Cur) /\ dl_stack_top = 0) => pc' = "DONE"
      ]_vars

\* C2 as stated, for every BRANCH: the stack is left alone and the command
\* after the BRANCH is not the next one visited (unless it is the target)
C2_Original ==
    [][ (Exec /\ IsBranchCmd(Cur))
            => /\ UNCHANGED <<dl_stack, dl_stack_top>>
               /\ (dl' = Succ(dl) => Cur.w1 = Succ(dl))
      ]_vars

\* a BRANCH at cell 1 to cell 2 was taken with an empty stack and the END
\* there ended the invocation
C2_Witness ==
    /\ Mem[1] = BranchCmd(P(2))
    /\ Mem[2] = gSPEndDisplayList
    /\ pc = "DONE"
    /\ dl = P(2)
    /\ visited = {1, 2}
    /\ dl_stack_top = 0

\* C3: an invocation on a non-null root returns only by executing an END
\* with an empty stack; an END with a non-empty stack pops exactly one
\* cursor, continues there and keeps running; no other command returns.
C3_ReturnOnlyAtEnd ==
    [][ /\ (pc = "RUNNING" /\ pc' = "DONE")
            => (AtCmd /\ IsEndCmd(Cur) /\ dl_stack_top = 0)
        /\ (Exec /\ IsEndCmd(Cur) /\ dl_stack_top > 0)
            => /\ dl_stack_top' = dl_stack_top - 1
               /\ dl' = dl_stack[dl_stack_top - 1]
               /\ dl_stack' = dl_stack
               /\ pc' = "RUNNING"
        /\ (Exec /\ ~IsEndCmd(Cur)) => pc' = "RUNNING"
      ]_vars

\* the chain of two CALLs has returned at the root's END after two pops
C3_Witness ==
    /\ IsChain(2)
    /\ pc = "DONE"
    /\ dl = P(3)
    /\ dl_stack_top = 0
    /\ visited = 1..8

\* C4: the depth is always in 0..16 and every access to dl_stack has an
\* index in 0..15.
C4_StackBounded ==
    /\ dl_stack_top \in 0..DL_STACK_SIZE
    /\ stk_idx \in 0..(DL_STACK_SIZE - 1)
    /\ DOMAIN dl_stack = 0..(DL_STACK_SIZE - 1)

\* the 17th nested CALL was executed with 16 cursors saved
C4_Witness ==
    /\ IsChain(17)
    /\ pc = "RUNNING"
    /\ dl = P(52)
    /\ dl_stack_top = DL_STACK_SIZE
    /\ 49 \in visited

\* C5: in a chain of n <= 16 nested CALLs the depth at every cursor is the
\* nesting level of its buffer, the saved cursors are the commands after
\* the CALLs of the enclosing buffers in nesting order, and the invocation
\* returns at the root's END with an empty stack, after visiting every
\* command when it was started at the chain's first command.
C5_ChainUnwinds ==
    \A n \in 0..DL_STACK_SIZE :
        (IsChain(n) /\ dl # Null /\ pc \in {"RUNNING", "DONE"})
        => LET i == dl.lo
               depth == IF i > 3 * n THEN n ELSE (i - 1) \div 3
           IN  /\ dl.hi = 0
               /\ i \in 1..BufEnd
               /\ dl_stack_top = depth
               /\ \A j \in 0..(depth - 1) : dl_stack[j] = P(3 * j + 2)
               /\ pc = "DONE"
                    => /\ i = (IF n = 0 THEN 2 ELSE 3)
                       /\ 1 \in visited => visited = 1..BufEnd

\* the chain of 16 nested CALLs has returned
C5_Witness ==
    /\ IsChain(DL_STACK_SIZE)
    /\ pc = "DONE"
    /\ dl = P(3)
    /\ dl_stack_top = 0
    /\ visited = 1..50

\* C6: a CALL executed with 16 cursors saved is either rejected (the walker
\* stays running, goes on with the command after the CALL and leaves the
\* stack alone) or fatal (the walker stops running).
C6_OverflowPolicy ==
    [][ (Exec /\ IsCallCmd(Cur) /\ dl_stack_top = DL_STACK_SIZE)
            => \/ /\ pc' = "RUNNING"
                  /\ dl' = Succ(dl)
                  /\ UNCHANGED <<dl_stack, dl_stack_top>>
               \/ pc' # "RUNNING"
      ]_vars

\* buffers A = [BRANCH(B)] and B = [BRANCH(A)]
MutualBranch ==
    /\ Mem[1] = BranchCmd(P(2))
    /\ Mem[2] = BranchCmd(P(1))

\* C7: an invocation on the mutually branching streams A -> B -> A comes to
\* an end.
C7_CycleReturns == (pc = "RUNNING" /\ MutualBranch) ~> (pc # "RUNNING")

\* uintptr_t sum of a table entry and a 24-bit offset on the 32-bit target
C8_Sum(t, off) ==
    [hi |-> (t.hi + off.hi + ((t.lo + off.lo) \div 65536)) % 65536,
     lo |-> (t.lo + off.lo) % 65536]

C8_Expected(table, a) ==
    LET id == (a.hi \div 256) % 16
        off == [hi |-> a.hi % 256, lo |-> a.lo]
    IN  IF table[id] # Null THEN C8_Sum(table[id], off) ELSE off

\* C8: nsp_segmented_to_virtual(a) returns table[id] + offset (uintptr_t
\* arithmetic) when table[id] is set and the raw offset otherwise, with
\* id = (a >> 24) & 0xF and offset = a & 0x00FFFFFF, in both files that
\* define it, and leaves the table as it was.
C8_Resolve ==
    [][ \A a \in EncodedArgs :
          /\ SegmentedToVirtual(a)
                => /\ ret' = C8_Expected(nsp_segments, a)
                   /\ nsp_segments' = nsp_segments
          /\ MainSegmentedToVirtual(a)
                => /\ ret' = C8_Expected(segment_table, a)
                   /\ segment_table' = segment_table
      ]_vars

\* after set(1, 0x1000) the address 0x01000020 has resolved to 0x1020
C8_Witness ==
    /\ nsp_segments[1] = MkW(0, 4096)
    /\ ret = MkW(0, 4128)

\* C9: nsp_set_segment(id, addr) leaves table[id & 0xF] = addr whatever the
\* entry held, and the other 15 entries as they were.
C9_SetOverwrites ==
    [][ \A seg \in SegArgs, addr \in BaseArgs :
          SetSegment(seg, addr)
            => /\ nsp_segments'[seg % 16] = addr
               /\ \A i \in (0..15) \ {seg % 16} :
                     nsp_segments'[i] = nsp_segments[i]
      ]_vars

\* entries 1 and 15 hold the values of the latest sets on them
C9_Witness ==
    /\ nsp_segments[1] = MkW(65535, 65520)
    /\ nsp_segments[15] = MkW(0, 4096)
    /\ seg_idx = 1

\* C10: every index used on a segment table is in 0..15.
C10_SegIndexInRange ==
    /\ seg_idx \in 0..15
    /\ DOMAIN nsp_segments = 0..15
    /\ DOMAIN segment_table = 0..15

\* the in-stream segment set with id 63 (w0 low byte 252) has been walked
C10_Witness ==
    /\ pc = "RUNNING"
    /\ BufEnd = Len(SamplerProgram)
    /\ dl = P(6)
    /\ Mem[5] = SegmentCmd(252, P(2))
    /\ seg_idx = 15
    /\ nsp_segments[15] = P(2)

(* ---------------- C11 ---------------- *)
\* a G_MOVEMEM command whose index byte (w0 >> 8) & 0xFF is G_MW_SEGMENT
C11_IsSegSet(c) ==
    c.w0.hi \div 256 = G_MOVEMEM /\ c.w0.lo \div 256 = G_MW_SEGMENT

\* the table entry such a command names
C11_Entry(c) == ((c.w0.lo % 256) \div 4) % 16

\* C11: the segment table persists across invocations of
\* nsp_process_display_list: entering and leaving the walker changes no
\* entry, and during a run entry i changes only in a step that executes a
\* segment-set command naming entry i.
C11_TablePersists ==
    [][\A i \in 0..15 :
          nsp_segments'[i] # nsp_segments[i]
              => Exec /\ C11_IsSegSet(Cur) /\ C11_Entry(Cur) = i]_vars

\* a later invocation starts with the entry an earlier one set
C11_Witness ==
    /\ pc = "RUNNING"
    /\ visited = {}
    /\ dl_stack_top = 0
    /\ nsp_segments[15] = P(2)
    /\ nsp_segments[0] = Null

(* ---------------- C12 ---------------- *)
\* C12: every invocation of nsp_process_display_list with a non-null root
\* starts with dl_stack_top = 0, whatever earlier invocations left in
\* dl_stack; an END met at depth 0 returns and leaves the array alone, and
\* an END that resumes a caller takes the cursor from below the top, so a
\* cursor saved by an earlier invocation is never popped.
C12_FreshStack ==
    [][/\ (pc \in {"IDLE", "DONE"} /\ pc' = "RUNNING")
            => (dl_stack_top' = 0 /\ dl' # Null /\ dl_stack' = dl_stack)
       /\ (Exec /\ IsEndCmd(Cur) /\ dl_stack_top = 0)
            => (pc' = "DONE" /\ dl_stack' = dl_stack /\ dl_stack_top' = 0)
       /\ (Exec /\ IsEndCmd(Cur) /\ pc' = "RUNNING")
            => (dl_stack_top > 0 /\ dl' = dl_stack[dl_stack_top - 1])]_vars

\* a later invocation has reached an END at depth 0 while the array still
\* holds a cursor saved by an earlier invocation
C12_Witness ==
    /\ AtCmd
    /\ IsEndCmd(Cur)
    /\ dl_stack_top = 0
    /\ dl_stack[0] # Null
    /\ \A i \in visited : ~IsDLCmd(Mem[i])

(* ---------------- C13 ---------------- *)
\* C13: a CALL or BRANCH with a non-null target word sets the cursor to
\* resolve(target), the target word translated through the segment table.
C13_TargetResolved ==
    [][(Exec /\ IsDLCmd(Cur) /\ Cur.w1 # Null)
          => dl' = C8_Expected(nsp_segments, Cur.w1)]_vars

(* ---------------- C14 ---------------- *)
\* C14: walking a G_MOVEMEM command whose index (w0 >> 8) & 0xFF is
\* G_MW_SEGMENT stores w1 in the table entry (w0 & 0xFF) / 4 (reduced to
\* 0..15 by the set), and walking a G_MOVEMEM command with any other index
\* leaves the table as it was; both leave the call stack unchanged and
\* move the cursor to the next command.
C14_SegmentSet ==
    [][(Exec /\ Cur.w0.hi \div 256 = G_MOVEMEM)
          => /\ nsp_segments' =
                   IF C11_IsSegSet(Cur)
                   THEN [nsp_segments EXCEPT ![C11_Entry(Cur)] = Cur.w1]
                   ELSE nsp_segments
             /\ dl_stack' = dl_stack
             /\ dl_stack_top' = dl_stack_top
             /\ dl' = Succ(dl)
             /\ pc' = "RUNNING"]_vars

\* the sampler stream has been walked past a G_MOVEMEM with index 0 (cell
\* 3, no effect) and past the segment set with w0 low byte 68 (cell 4)
C14_Witness ==
    /\ pc = "RUNNING"
    /\ BufEnd = Len(SamplerProgram)
    /\ Mem[3] = gSPSegment(1, P(2))
    /\ Mem[4] = SegmentCmd(68, P(3))
    /\ dl = P(5)
    /\ visited = {1, 2, 3, 4}
    /\ nsp_segments[1] = P(3)
    /\ nsp_segments[0] = Null
    /\ dl_stack_top = 0

(* ---------------- C15 ---------------- *)
\* a render command with its address operand translated through the table
C15_Resolved(c) == [w0 |-> c.w0, w1 |-> C8_Expected(nsp_segments, c.w1)]

\* C15: the renderer receives the render commands the walker visits, in
\* the order visited and with their address operands resolved: every
\* visited render command has been submitted, and once the stream
\* [RENDER(a), RENDER(b), END] has been walked to its END the submissions
\* are exactly a, b.
C15_Submissions ==
    /\ \A i \in visited :
          (Mem[i].w0.hi \div 256) \in RenderOps
              => \E k \in DOMAIN submitted : submitted[k] = C15_Resolved(Mem[i])
    /\ (pc = "DONE" /\ visited = {1, 2, 3}
            /\ SubSeq(Mem, 1, BufEnd) = RenderProgram)
          => submitted = <<C15_Resolved(Mem[1]), C15_Resolved(Mem[2])>>

(* ---------------- C16 ---------------- *)
\* the opcodes some case of the switch names
C16_Named == {G_ENDDL, G_DL, G_MOVEMEM} \cup RenderOps \cup SyncOps

\* C16: a sync or no-op command and a command with an opcode the walker
\* does not know only move the cursor to the next command: the call stack
\* and the segment table stay as they were, nothing is submitted and the
\* walk goes on.
C16_PassThrough ==
    [][(Exec /\ ((Cur.w0.hi \div 256) \in SyncOps
                    \/ (Cur.w0.hi \div 256) \notin C16_Named))
          => /\ dl' = Succ(dl)
             /\ pc' = "RUNNING"
             /\ dl_stack' = dl_stack
             /\ dl_stack_top' = dl_stack_top
             /\ nsp_segments' = nsp_segments
             /\ submitted' = submitted]_vars

\* the sampler stream has been walked past its no-op (cell 1) and its
\* unknown opcode (cell 2)
C16_Witness ==
    /\ pc = "RUNNING"
    /\ BufEnd = Len(SamplerProgram)
    /\ Mem[1] = gDPNoOp
    /\ Mem[2] = UnknownCmd
    /\ dl = P(3)
    /\ visited = {1, 2}
    /\ dl_stack_top = 0
    /\ submitted = <<>>

(* ---------------- C17 ---------------- *)
\* C17: the walker reads commands only inside the command buffers: every
\* cell whose command it executed lies in 1..BufEnd, and no read of a
\* command traps.
C17_ReadsInBuffer ==
    /\ visited \subseteq 1..BufEnd
    /\ pc # "FAULT"

(* ---------------- C18 ---------------- *)
\* the steps the walker can take in the current state
C18_Steps ==
    {k \in 1..7 :
        \/ k = 1 /\ ENABLED StepEndDL
        \/ k = 2 /\ ENABLED StepDL
        \/ k = 3 /\ ENABLED StepMoveMem
        \/ k = 4 /\ ENABLED StepRender
        \/ k = 5 /\ ENABLED StepSync
        \/ k = 6 /\ ENABLED StepDefault
        \/ k = 7 /\ ENABLED StepFault}

\* C18: the walk is determined by the command streams and the segment
\* table: in every state of a run the walker has one step to take, so two
\* runs that agree on the streams and on the table cannot part.
C18_Deterministic == pc = "RUNNING" => Cardinality(C18_Steps) = 1

(* ---------------- C19 ---------------- *)
\* everything the walker can write that is still there after it returned
C19_Lasting == <<dl_stack, dl_stack_top, nsp_segments, submitted>>

\* C19: an abnormal condition leaves a record that can be read after the
\* walker returned: the step in which a CALL finds the call stack full
\* writes something that outlives the invocation, and the walk goes on.
C19_Recorded ==
    [][(Exec /\ IsCallCmd(Cur) /\ dl_stack_top = DL_STACK_SIZE)
          => (C19_Lasting' # C19_Lasting /\ pc' = "RUNNING")]_vars

(* ---------------- C20 ---------------- *)
\* C20 as stated: a call of Graph_TaskSet00_Nsp that passed the frame-skip
\* test has called nsp_process_display_list exactly once when it returns,
\* and a call that did not pass it never calls it.
C20_Original ==
    /\ calls_process <= 1
    /\ ~selected => calls_process = 0
    /\ (selected /\ drv = "idle") => calls_process = 1

\* C20: a call of Graph_TaskSet00_Nsp that passed the frame-skip test calls
\* nsp_process_display_list exactly once if gGfxMasterDL is not NULL and
\* not at all if it is NULL, before it swaps the buffers; a call that did
\* not pass the test never calls it.
C20_OncePerSelected ==
    /\ calls_process <= 1
    /\ ~selected => calls_process = 0
    /\ (selected /\ drv \in {"walking", "swap_begin", "swap_end", "idle"})
          => calls_process = (IF gGfxMasterDL # Null THEN 1 ELSE 0)

\* with two frames skipped in three, a selected frame has been rendered:
\* the walker was called once, it returned, and the driver returned
C20_Witness ==
    /\ configFrameskip = MkW(0, 2)
    /\ drv = "idle"
    /\ selected
    /\ calls_process = 1
    /\ pc = "DONE"
    /\ frameskip_counter = MkW(0, 0)

(* ---------------- C21 ---------------- *)
\* a step of the frame driver that is one call, or a run of calls, up to
\* the decision of the frame-skip test
C21_Calls == drv = "idle" /\ (drv' = "process" \/ skipped' # skipped)

\* the calls of this step keep to "render on every (K+1)-th call": a call
\* that renders comes after exactly K calls that did not, and calls that
\* do not render are at most K in a row
C21_EveryKPlusOne ==
    /\ drv' = "process" => skipped = configFrameskip
    /\ drv' # "process"
          => (LeqW(skipped, skipped') /\ LeqW(skipped', configFrameskip))

C22_IsSwap(x) == x \in {"nsp_swap_buffers_begin", "nsp_swap_buffers_end"}

\* the swap calls of the current call of the frame driver, in order
C22_Swaps == SelectSeq(trace, C22_IsSwap)

\* C22: the buffer swap is called by the frame driver only: begin, then
\* end, each once, in a call that passed the frame-skip test, after the
\* walker invocation of that call has returned; while the walker runs
\* nothing has been swapped, and a call that did not pass the test swaps
\* nothing.
C22_SwapAfterWalk ==
    /\ C22_Swaps \in {<<>>, <<"nsp_swap_buffers_begin">>,
                      <<"nsp_swap_buffers_begin", "nsp_swap_buffers_end">>}
    /\ ~selected => C22_Swaps = <<>>
    /\ (selected /\ drv = "idle")
          => C22_Swaps = <<"nsp_swap_buffers_begin", "nsp_swap_buffers_end">>
    /\ pc = "RUNNING" => C22_Swaps = <<>>
    /\ \A i, j \in DOMAIN trace :
          (i < j /\ trace[i] = "nsp_process_display_list" /\ C22_IsSwap(trace[j]))
              => \E k \in (i + 1)..(j - 1) : trace[k] = "return"
    /\ \A i, j \in DOMAIN trace :
          (C22_IsSwap(trace[i]) /\ trace[j] = "nsp_process_display_list")
              => j < i

\* a call of the frame driver that rendered has returned: it called the
\* walker, the walker returned, then the swap was begun and ended
C22_Witness ==
    /\ drv = "idle"
    /\ selected
    /\ pc = "DONE"
    /\ trace = <<"nsp_process_display_list", "return",
                 "nsp_swap_buffers_begin", "nsp_swap_buffers_end">>

(* ---------------- C23 ---------------- *)
\* the positions of the calls of f in the trace
C23_At(f) == {i \in DOMAIN trace : trace[i] = f}

\* C23: every walker invocation made by the frame driver lies inside one
\* gfx_start_frame / gfx_end_frame bracket: the bracket was opened before
\* the call and not closed since, and when the driver returns the bracket
\* has been closed after the walker's return; and every bracket encloses
\* one walker invocation.
C23_Bracketed ==
    /\ \A i \in C23_At("nsp_process_display_list") :
          /\ Cardinality({j \in C23_At("gfx_start_frame") : j < i}) = 1
          /\ {j \in C23_At("gfx_end_frame") : j < i} = {}
    /\ drv = "idle"
          => \A i \in C23_At("return") :
                Cardinality({j \in C23_At("gfx_end_frame") : j > i}) = 1
    /\ \A i \in C23_At("gfx_end_frame") :
          Cardinality({j \in C23_At("nsp_process_display_list") : j < i}) = 1

(* -------- main_nsp.c: the recursive nsp_process_display_list -------- *)
\* deepest recursion that is followed
MaxNative == 20

\* (w0 & 0x00FF0000) == 0x00010000
MainIsBranch(w0) == (w0.hi % 256) = 1

\* an activation that returns as soon as any child has returned
MainReturn_always(frames, cur) ==
    [pc |-> "DONE", dl |-> cur, frames |-> <<>>]

\* the running activation returns. Its caller is suspended in a G_DL: when
\* that G_DL is a branch the caller returns too, otherwise it breaks out of
\* the switch and goes on with dl++. The outermost activation returns to
\* the caller of the walker.
RECURSIVE MainReturn(_, _)
MainReturn(frames, cur) ==
    IF frames = <<>>
    THEN [pc |-> "DONE", dl |-> cur, frames |-> <<>>]
    ELSE LET f == frames[Len(frames)]
             rest == SubSeq(frames, 1, Len(frames) - 1)
         IN  IF MainIsBranch(f.w0)
             THEN MainReturn(rest, cur)
             ELSE [pc |-> "RUNNING", dl |-> PtrInc(f.dl), frames |-> rest]

MainIdle == main_pc \in {"IDLE", "DONE"}

\* nsp_process_display_list(root) with a non-null root
MainEntry(root) ==
    /\ root # Null
    /\ main_dl' = root
    /\ main_frames' = <<>>
    /\ main_pc' = "RUNNING"
    /\ main_visited' = {}

\* case G_ENDDL: return;
MainCaseEndDL ==
    /\ main_pc = "RUNNING"
    /\ \E c \in Fetch(main_dl) :
        /\ Opcode(c.w0) = G_ENDDL
        /\ main_visited' = main_visited \cup {main_dl.lo}
        /\ LET r == MainReturn(main_frames, main_dl)
           IN  /\ main_pc' = r.pc
               /\ main_dl' = r.dl
               /\ main_frames' = r.frames

\* a G_DL that returns after its child whatever its flag
MainCaseDL_return ==
    /\ main_pc = "RUNNING"
    /\ \E c \in Fetch(main_dl) :
        /\ Opcode(c.w0) = G_DL
        /\ main_visited' = main_visited \cup {main_dl.lo}
        /\ IF c.w1 # Null
           THEN /\ Len(main_frames) < MaxNative
                /\ main_frames' =
                       Append(main_frames,
                              [dl |-> main_dl, w0 |-> MkW(G_DL * 256 + 1, 0)])
                /\ main_dl' = c.w1
                /\ main_pc' = "RUNNING"
           ELSE LET r == MainReturn(main_frames, main_dl)
                IN  /\ main_pc' = r.pc
                    /\ main_dl' = r.dl
                    /\ main_frames' = r.frames

\* case G_DL: the child is walked by a nested activation; with no child
\* the branch flag alone decides between return and break
MainCaseDL ==
    /\ main_pc = "RUNNING"
    /\ \E c \in Fetch(main_dl) :
        /\ Opcode(c.w0) = G_DL
        /\ main_visited' = main_visited \cup {main_dl.lo}
        /\ IF c.w1 # Null
           THEN /\ Len(main_frames) < MaxNative
                /\ main_frames' =
                       Append(main_frames, [dl |-> main_dl, w0 |-> c.w0])
                /\ main_dl' = c.w1
                /\ main_pc' = "RUNNING"
           ELSE IF MainIsBranch(c.w0)
                THEN LET r == MainReturn(main_frames, main_dl)
                     IN  /\ main_pc' = r.pc
                         /\ main_dl' = r.dl
                         /\ main_frames' = r.frames
                ELSE /\ main_dl' = PtrInc(main_dl)
                     /\ UNCHANGED <<main_frames, main_pc>>

\* every other case, G_MOVEMEM among them, and the default: break;
MainCaseBreak ==
    /\ main_pc = "RUNNING"
    /\ \E c \in Fetch(main_dl) :
        /\ Opcode(c.w0) \notin {G_ENDDL, G_DL}
        /\ main_visited' = main_visited \cup {main_dl.lo}
    /\ main_dl' = PtrInc(main_dl)
    /\ UNCHANGED <<main_frames, main_pc>>

(* ------ the two walkers side by side on the same command buffers ------ *)
\* buffers of ArbLen arbitrary commands and an END, every target NULL or a
\* cell of the buffers
PairCmds ==
    {gSPEndDisplayList, gSPVertex(Null, 1, 0), SegmentCmd(4, P(2)), gDPNoOp,
     UnknownCmd}
    \cup {gSPDisplayList(P(t)) : t \in 0..(ArbLen + 1)}
    \cup {BranchCmd(P(t)) : t \in 0..(ArbLen + 1)}

PairPrograms ==
    {b \o <<gSPEndDisplayList>> : b \in [1..ArbLen -> PairCmds]}
        \cup ChainPrograms

InitPair == InitWith(PairPrograms)

\* the command at the explicit-stack walker's cursor is one of the two the
\* walkers are known to treat differently
Excuse ==
    \E c \in Fetch(dl) :
        /\ Opcode(c.w0) = G_DL
        /\ \/ c.w1 = Null /\ IsBranch(c.w0)
           \/ c.w1 # Null /\ ~IsBranch(c.w0) /\ ~PushGuard(dl_stack_top)

\* both walkers are called with the same root
PairStart(root) ==
    /\ Idle
    /\ MainIdle
    /\ ProcessEntry(root)
    /\ MainEntry(root)
    /\ excused' = FALSE
    /\ UNCHANGED <<frame_vars, stub_vars>>

\* each walker executes the command at its cursor
PairStep ==
    /\ CaseEndDL \/ CaseDL \/ CaseMoveMem \/ CaseRender \/ CaseSync
          \/ CaseDefault
    /\ MainCaseEndDL \/ MainCaseDL \/ MainCaseBreak
    /\ excused' = (excused \/ Excuse)
    /\ UNCHANGED <<frame_vars, stub_vars>>

\* the recursive walker has returned, the explicit-stack one goes on
PairStackOnly ==
    /\ main_pc # "RUNNING"
    /\ Walk

\* the explicit-stack walker has returned, the recursive one goes on
PairMainOnly ==
    /\ pc # "RUNNING"
    /\ MainCaseEndDL \/ MainCaseDL \/ MainCaseBreak
    /\ UNCHANGED <<Mem, BufEnd, dl, dl_stack, dl_stack_top, nsp_segments,
                   segment_table, pc, visited, stk_idx, seg_idx, ret,
                   submitted, excused, frame_vars, stub_vars>>

NextPair ==
    \/ \E root \in Roots : PairStart(root)
    \/ PairStep
    \/ PairStackOnly
    \/ PairMainOnly

SpecPair == InitPair /\ [][NextPair]_vars

(* ---------------- C24 ---------------- *)
\* the recursive walker is about to execute the command at its cursor
MainAt == main_pc = "RUNNING" /\ main_dl.hi = 0 /\ main_dl.lo \in 1..Len(Mem)

MainCur == Mem[main_dl.lo]

\* the running activation of the recursive walker is a child that returns
\* with this step to an activation waiting in a CALL
C24_ChildReturnsToCall ==
    /\ MainAt
    /\ IsEndCmd(MainCur)
    /\ main_frames # <<>>
    /\ IsCallCmd(Mem[main_frames[Len(main_frames)].dl.lo])

C24_CallCell == main_frames[Len(main_frames)].dl

\* C24 as stated: the recursive walker returns after a non-branch child
\* call, so it never goes on with the command that follows the CALL
C24_Original ==
    [][C24_ChildReturnsToCall
          => ~(main_pc' = "RUNNING" /\ main_dl' = Succ(C24_CallCell))]_vars

\* C24: when the child of a non-branch CALL returns, the recursive walker
\* goes on with the command that follows the CALL in the calling buffer,
\* with the activations below it as they were, and the explicit-stack
\* walker, when it has run the same commands, goes on with the same command
C24_ContinuesAfterCall ==
    [][C24_ChildReturnsToCall
          => /\ main_pc' = "RUNNING"
             /\ main_dl' = Succ(C24_CallCell)
             /\ main_frames' = SubSeq(main_frames, 1, Len(main_frames) - 1)
             /\ (~excused /\ pc = "RUNNING" /\ dl = main_dl)
                    => (pc' = "RUNNING" /\ dl' = Succ(C24_CallCell))]_vars

\* both walkers have run [CALL 3, x, END] up to the END of the child and
\* stand at the command that follows the CALL
C24_Witness ==
    /\ IsCallCmd(Mem[1])
    /\ Mem[1].w1 = P(3)
    /\ IsEndCmd(Mem[3])
    /\ main_pc = "RUNNING"
    /\ main_dl = P(2)
    /\ main_visited = {1, 3}
    /\ main_frames = <<>>
    /\ pc = "RUNNING"
    /\ dl = P(2)
    /\ visited = {1, 3}

(* ---------------- C25 ---------------- *)
\* the command at the cursor is a BRANCH with a null target
C25_NullBranch == IsBranchCmd(Cur) /\ Cur.w1 = Null

\* C25: started on the same root, the recursive walker and the
\* explicit-stack walker execute the same commands in the same order until
\* they meet a BRANCH with a null target or a CALL nested deeper than 16:
\* up to there they stand at the same cursor after every command, have
\* visited the same cells and return together; at a BRANCH with a null
\* target the explicit-stack walker goes on with the next command while the
\* activation of the recursive walker returns
C25_SameVisits ==
    /\ [](~excused
            => /\ main_pc = pc
               /\ main_visited = visited
               /\ pc = "RUNNING" => main_dl = dl)
    /\ [][(~excused /\ AtCmd /\ main_pc = "RUNNING" /\ C25_NullBranch)
            => /\ pc' = "RUNNING" /\ dl' = Succ(dl)
               /\ IF main_frames = <<>>
                  THEN main_pc' = "DONE"
                  ELSE Len(main_frames') < Len(main_frames)]_vars

\* both walkers have returned from the chain of 16 nested CALLs, each
\* having executed every command of it
C25_Witness ==
    /\ IsChain(16)
    /\ pc = "DONE"
    /\ main_pc = "DONE"
    /\ ~excused
    /\ visited = 1..BufEnd
    /\ main_visited = 1..BufEnd

(* ---------------- C26 ---------------- *)
\* C26: whenever nsp_process_display_list has returned, dl_stack_top is 0,
\* whatever the stream held: BRANCHes, CALLs dropped by a full stack, or a
\* NULL root
C26_EmptyAtReturn == pc = "DONE" => dl_stack_top = 0

\* the walker has returned from the chain of 17 nested CALLs, the last of
\* which found the stack full, with nothing left on the stack
C26_Witness ==
    /\ IsChain(17)
    /\ pc = "DONE"
    /\ 1 \in visited
    /\ 3 * 16 + 1 \in visited
    /\ dl_stack_top = 0

(* ---------------- C27 ---------------- *)
\* the cells the walker can stand at right after cell i: the target of a
\* CALL or BRANCH, and the next cell unless i ends the list or branches
C27_Succs(i) ==
    (IF IsDLCmd(Mem[i]) /\ Mem[i].w1 # Null THEN {Mem[i].w1.lo} ELSE {})
    \cup (IF IsEndCmd(Mem[i]) \/ (IsBranchCmd(Mem[i]) /\ Mem[i].w1 # Null)
          THEN {}
          ELSE {i + 1})

RECURSIVE C27_Reach(_)
C27_Reach(S) ==
    LET T == S \cup UNION {C27_Succs(i) : i \in S \cap (1..BufEnd)}
    IN  IF T = S THEN S ELSE C27_Reach(T)

\* the buffers end with END, every CALL and BRANCH target is NULL or a cell
\* of the buffers, and no cell leads back to itself
C27_Acyclic ==
    /\ IsEndCmd(Mem[BufEnd])
    /\ \A i \in 1..BufEnd :
          IsDLCmd(Mem[i]) =>
              Mem[i].w1 = Null
                  \/ (Mem[i].w1.hi = 0 /\ Mem[i].w1.lo \in 1..BufEnd)
    /\ \A i \in 1..BufEnd : i \notin C27_Reach(C27_Succs(i))

\* C27: on buffers that end with END and whose CALL/BRANCH graph has no
\* cycle, every invocation of nsp_process_display_list returns, whatever
\* the nesting depth of the CALLs
C27_Terminates == (pc = "RUNNING" /\ C27_Acyclic) ~> (pc = "DONE")

\* the walker has returned from the chain of 17 nested CALLs, deeper than
\* the stack, having executed the innermost buffer
C27_Witness ==
    /\ BufEnd = 3 * 17 + 2
    /\ pc = "DONE"
    /\ {1, BufEnd - 1, BufEnd} \subseteq visited
    /\ C27_Acyclic

(* ---------------- C28 ---------------- *)
\* C28: a command emitted by gSPBranchList with a non-null target is
\* executed as a BRANCH: the walker goes to the target and saves no return
\* cursor, so the commands that follow it are not returned to
C28_BranchListBranches ==
    [][(Exec /\ Cur.w1 # Null /\ Cur = gSPBranchList(Cur.w1))
          => /\ dl' = Cur.w1
             /\ dl_stack_top' = dl_stack_top
             /\ dl_stack' = dl_stack]_vars

(* ---------------- C29 ---------------- *)
\* C29: walking the command gSPSegment emits for segment seg and base b
\* leaves b in entry seg of the segment table (so that a later resolve of
\* (seg, offset) yields b + offset)
C29_SegmentEmitted ==
    [][\A seg \in 0..15 :
          (Exec /\ Cur = gSPSegment(seg, Cur.w1))
              => nsp_segments'[seg] = Cur.w1]_vars

(* ---------------- C30 ---------------- *)
\* the cursor is at the second word of a texture rectangle whose first
\* word the walker has just passed
C30_AtSecondWord ==
    /\ AtCmd
    /\ dl.lo >= 2
    /\ Mem[dl.lo - 1].w0.hi \div 256 = G_TEXRECT
    /\ (dl.lo - 1) \in visited

\* C30: the second word of a texture rectangle is passed through whatever
\* its arguments: it is not acted on as END, CALL, BRANCH or segment set,
\* so the cursor moves on to the next command and the call stack and the
\* segment table stay as they were
C30_SecondWordInert ==
    [][(C30_AtSecondWord /\ pc' # "FAULT")
          => /\ pc' = "RUNNING"
             /\ dl' = Succ(dl)
             /\ dl_stack' = dl_stack
             /\ dl_stack_top' = dl_stack_top
             /\ nsp_segments' = nsp_segments]_vars

(* ---------------- C31 ---------------- *)
\* C31: a CALL or BRANCH whose target word is zero is skipped: nothing is
\* pushed, the cursor advances by one and the walk goes on; and a call of
\* the walker with a NULL root returns at once and leaves the call stack
\* and the segment table as they were
C31_NullSkipped ==
    [][/\ (Exec /\ IsDLCmd(Cur) /\ Cur.w1 = Null)
            => /\ pc' = "RUNNING"
               /\ dl' = Succ(dl)
               /\ dl_stack' = dl_stack
               /\ dl_stack_top' = dl_stack_top
       /\ (pc \in {"IDLE", "DONE"} /\ pc' = "DONE")
            => /\ dl_stack' = dl_stack
               /\ dl_stack_top' = dl_stack_top
               /\ nsp_segments' = nsp_segments
               /\ segment_table' = segment_table]_vars

\* the walker has skipped a BRANCH with a NULL target in the first cell and
\* stands at the second
C31_Witness ==
    /\ IsBranchCmd(Mem[1])
    /\ Mem[1].w1 = Null
    /\ pc = "RUNNING"
    /\ dl = P(2)
    /\ visited = {1}
    /\ dl_stack_top = 0

(* ---------------- os_stubs.h: the message queue ---------------- *)
\* largest capacity a queue is created with
MaxCap == 2

\* the messages are the pointers 0 (NULL) .. MaxMsg
MaxMsg == 1

\* messages a queue accepts before it is created anew
MaxSent == 3

Msgs == 0..MaxMsg

OS_MESG_NOBLOCK == 0

OS_MESG_BLOCK == 1

\* a send that stores past the last valid message without wrapping
SendIndex_nomod(f, v, n) == f + v

\* (mq->first + mq->validCount) % mq->msgCount
SendIndex(f, v, n) == (f + v) % n

\* a receive that leaves mq->first where it is
RecvNext_stay(f, n) == f

\* (mq->first + 1) % mq->msgCount
RecvNext(f, n) == (f + 1) % n

\* a send that also accepts a message when the queue is full
SendGuard_le(v, n) == v <= n /\ n > 0

\* mq->validCount < mq->msgCount
SendGuard(v, n) == v < n

\* a receive that hands out the newest message
RecvSlot_last(f, v, n) == (f + v - 1) % n

\* mq->msg[mq->first]
RecvSlot(f, v, n) == f

\* osCreateMesgQueue(mq, buf, n): buf holds n slots, all g
osCreateMesgQueue(n, g) ==
    /\ mq_msg' = [i \in 0..(n - 1) |-> g]
    /\ msgCount' = n
    /\ validCount' = 0
    /\ first' = 0
    /\ mq_sent' = <<>>
    /\ mq_recvd' = <<>>
    /\ mq_idx' = -1
    /\ UNCHANGED <<mq_ret, mq_out>>

\* osSendMesg(mq, m, flag)
osSendMesg(m, flag) ==
    IF SendGuard(validCount, msgCount)
    THEN LET idx == SendIndex(first, validCount, msgCount)
         IN  /\ Len(mq_sent) < MaxSent
             /\ mq_msg' = [i \in DOMAIN mq_msg \cup {idx} |->
                              IF i = idx THEN m ELSE mq_msg[i]]
             /\ mq_idx' = idx
             /\ validCount' = validCount + 1
             /\ mq_sent' = Append(mq_sent, m)
             /\ mq_ret' = 0
             /\ UNCHANGED <<msgCount, first, mq_recvd, mq_out>>
    ELSE /\ mq_ret' = -1
         /\ mq_idx' = -1
         /\ UNCHANGED <<mq_msg, msgCount, validCount, first, mq_sent,
                        mq_recvd, mq_out>>

\* osJamMesg(mq, m, flag): return osSendMesg(mq, m, flag);
osJamMesg(m, flag) == osSendMesg(m, flag)

\* osRecvMesg(mq, msg, flag); dest tells whether msg is non-null
osRecvMesg(dest, flag) ==
    IF validCount > 0
    THEN LET idx == RecvSlot(first, validCount, msgCount)
         IN  /\ mq_out' = IF dest THEN mq_msg[idx] ELSE mq_out
             /\ mq_idx' = IF dest THEN idx ELSE -1
             /\ mq_recvd' = Append(mq_recvd, mq_msg[idx])
             /\ first' = RecvNext(first, msgCount)
             /\ validCount' = validCount - 1
             /\ mq_ret' = 0
             /\ UNCHANGED <<mq_msg, msgCount, mq_sent>>
    ELSE /\ mq_ret' = -1
         /\ mq_idx' = -1
         /\ UNCHANGED <<mq_msg, msgCount, validCount, first, mq_sent,
                        mq_recvd, mq_out>>

\* everything but the queue
nonmq_vars ==
    <<Mem, BufEnd, dl, dl_stack, dl_stack_top, nsp_segments, segment_table,
      pc, visited, stk_idx, seg_idx, ret, submitted, frame_vars, main_vars,
      pad_vars, rom_vars>>

MqCreate ==
    \E n \in 1..MaxCap, g \in {0, MaxMsg} :
        /\ osCreateMesgQueue(n, g)
        /\ mq_op' = "osCreateMesgQueue"
        /\ UNCHANGED nonmq_vars

MqSend ==
    \E m \in Msgs, flag \in {OS_MESG_NOBLOCK, OS_MESG_BLOCK} :
        /\ osSendMesg(m, flag)
        /\ mq_op' = "osSendMesg"
        /\ UNCHANGED nonmq_vars

MqJam ==
    \E m \in Msgs, flag \in {OS_MESG_NOBLOCK, OS_MESG_BLOCK} :
        /\ osJamMesg(m, flag)
        /\ mq_op' = "osJamMesg"
        /\ UNCHANGED nonmq_vars

MqRecv ==
    \E dest \in BOOLEAN, flag \in {OS_MESG_NOBLOCK, OS_MESG_BLOCK} :
        /\ osRecvMesg(dest, flag)
        /\ mq_op' = "osRecvMesg"
        /\ UNCHANGED nonmq_vars

\* the walker does not run here: one content of the memory behind the
\* command buffers is enough
QuietMem == \A i \in (BufEnd + 1)..Len(Mem) : Mem[i] = gDPNoOp

InitMq == InitWith({ChainProgram(0)}) /\ QuietMem

NextMq == MqCreate \/ MqSend \/ MqJam \/ MqRecv

SpecMq == InitMq /\ [][NextMq]_vars

(* ---------------- C32 ---------------- *)
\* the messages the queue holds, oldest first
C32_Queued ==
    [k \in 1..validCount |-> mq_msg[(first + k - 1) % msgCount]]

C33_QueueInRange ==
    msgCount >= 1
        => /\ 0 <= validCount /\ validCount <= msgCount
           /\ 0 <= first /\ first < msgCount
           /\ DOMAIN mq_msg = 0..(msgCount - 1)
           /\ mq_idx \in -1..(msgCount - 1)

\* a full queue of two slots whose oldest message is in the last slot:
\* the latest send wrapped around and wrote slot 0
C33_Witness ==
    /\ msgCount = 2
    /\ validCount = 2
    /\ first = 1
    /\ mq_idx = 0
    /\ mq_op = "osSendMesg"

(* ---------------- C34 ---------------- *)
C34_Queue == <<mq_msg, first, validCount>>

C35_Received ==
    /\ mq_op' = "osRecvMesg"
    /\ mq_ret' = 0
    /\ mq_idx' # -1
    /\ Len(mq_recvd') = Len(mq_recvd) + 1

NButtons == 2

\* calls of PadMgr_GetInput_Nsp that are followed
MaxPadCalls == 2

Buttons == 0..(NButtons - 1)

\* stick positions the keypad reports: the two ends of s8
StickVals == {-128, 127}

\* what input_nsp_get_pad() may point at after input_nsp_poll()
OSContPads ==
    [button : SUBSET Buttons, stick_x : StickVals, stick_y : StickVals]

\* the conversion of an int to s8
Wrap8(v) == ((v + 128) % 256) - 128

\* a ^ b on button words
Xor(a, b) == (a \ b) \cup (b \ a)

\* a press word that holds every button that is down
PressButton_down(cur, prev) == cur

\* (cur_button ^ prev_button) & cur_button
PressButton(cur, prev) == Xor(cur, prev) \cap cur

\* (cur_button ^ prev_button) & prev_button
RelButton(cur, prev) == Xor(cur, prev) \cap prev

\* a clear of controllers 2 and 3 only
OtherPorts_two == 1..2

\* memset(&input[1], 0, sizeof(InputCompat) * 3)
OtherPorts == 1..3

\* an InputCompat with no zero byte in any field
GarbageInput ==
    [cur_button |-> Buttons, cur_x |-> 127, cur_y |-> -128, errno_ |-> 4,
     prev_button |-> {0}, prev_x |-> 1, prev_y |-> 1, prev_errno |-> 4,
     press_button |-> Buttons, press_x |-> 1, press_y |-> 1,
     rel_button |-> Buttons, rel_x |-> 1, rel_y |-> 1]

\* controller 1 after the unlocked path has read pad
ReadPad(old, pad) ==
    [cur_button |-> pad.button,
     cur_x |-> pad.stick_x,
     cur_y |-> pad.stick_y,
     errno_ |-> 0,
     prev_button |-> old.cur_button,
     prev_x |-> old.cur_x,
     prev_y |-> old.cur_y,
     prev_errno |-> old.prev_errno,
     press_button |-> PressButton(pad.button, old.cur_button),
     press_x |-> Wrap8(pad.stick_x - old.cur_x),
     press_y |-> Wrap8(pad.stick_y - old.cur_y),
     rel_button |-> RelButton(pad.button, old.cur_button),
     rel_x |-> old.rel_x,
     rel_y |-> old.rel_y]

PadMgr_GetInput_Nsp(pad, lockInput) ==
    /\ pad_n < MaxPadCalls
    /\ pad_n' = pad_n + 1
    /\ lock_arg' = lockInput
    /\ IF lockInput # 0
       THEN input' = [i \in 0..3 |-> ZeroInput]
       ELSE input' = [i \in 0..3 |->
                         IF i = 0 THEN ReadPad(input[0], pad)
                         ELSE IF i \in OtherPorts THEN ZeroInput
                         ELSE input[i]]

\* everything but the input records
nonpad_vars ==
    <<Mem, BufEnd, dl, dl_stack, dl_stack_top, nsp_segments, segment_table,
      pc, visited, stk_idx, seg_idx, ret, submitted, frame_vars, main_vars,
      mq_vars, rom_vars>>

PadCall ==
    \E pad \in OSContPads, lockInput \in {0, 1, -1} :
        /\ PadMgr_GetInput_Nsp(pad, lockInput)
        /\ UNCHANGED nonpad_vars

InitPad ==
    /\ WalkerState({ChainProgram(0)})
    /\ FrameInit({MkW(0, 0)}, {Null})
    /\ MqInit
    /\ PadInit({ZeroInput, GarbageInput})
    /\ RomInit
    /\ QuietMem

NextPad == PadCall

SpecPad == InitPad /\ [][NextPad]_vars

(* ---------------- C36 ---------------- *)
\* C36: after every unlocked call controller 1 has prev_button = the
\* cur_button of before the call, press_button = cur_button AND NOT
\* prev_button, rel_button = prev_button AND NOT cur_button, so no button
\* is both pressed and released; and a button that was down before the
\* call and still is is not reported as pressed again
C36_PressRelease ==
    [][(pad_n' = pad_n + 1 /\ lock_arg' = 0)
          => LET a == input[0]
                 b == input'[0]
             IN  /\ b.prev_button = a.cur_button
                 /\ b.press_button = b.cur_button \ b.prev_button
                 /\ b.rel_button = b.prev_button \ b.cur_button
                 /\ b.press_button \cap b.rel_button = {}
                 /\ \A k \in a.cur_button \cap b.cur_button :
                        k \notin b.press_button]_vars

\* button 0 was down at the last two calls, both unlocked, and button 1
\* went down at the second: only button 1 is reported as pressed
C36_Witness ==
    /\ pad_n = 2
    /\ lock_arg = 0
    /\ input[0].cur_button = {0, 1}
    /\ input[0].prev_button = {0}
    /\ input[0].press_button = {1}
    /\ input[0].rel_button = {}

(* ---------------- C37 ---------------- *)
\* every field of the record is zero
C37_IsZero(r) ==
    /\ r.cur_button = {} /\ r.cur_x = 0 /\ r.cur_y = 0 /\ r.errno_ = 0
    /\ r.prev_button = {} /\ r.prev_x = 0 /\ r.prev_y = 0 /\ r.prev_errno = 0
    /\ r.press_button = {} /\ r.press_x = 0 /\ r.press_y = 0
    /\ r.rel_button = {} /\ r.rel_x = 0 /\ r.rel_y = 0

\* C37: a call with lockInput non-zero leaves all four input records
\* zero in every field, and every call leaves the records of controllers
\* 2 to 4 zero
C37_Cleared ==
    [][pad_n' = pad_n + 1
          => /\ lock_arg' # 0 => \A i \in 0..3 : C37_IsZero(input'[i])
             /\ \A i \in 1..3 : C37_IsZero(input'[i])]_vars

\* the first call, with lockInput = -1, has returned and the four records
\* are zero in every field
C37_Witness ==
    /\ pad_n = 1
    /\ lock_arg = -1
    /\ \A i \in 0..3 : C37_IsZero(input[i])

(* -------- the ROM file: nsp_rom_init, nsp_rom_close, nsp_rom_read -------- *)
\* bytes in the ROM file
RomLen == 3

\* largest size a read asks for
MaxRead == 2

\* the ROM file holds the bytes 1, 2, .., RomLen; the destination buffer
\* holds zeros before the first read
RomBytes == [i \in 1..RomLen |-> i]

\* rom_addr values: every offset up to one past the end, and 0x80000000
RomAddrs == {MkW(0, k) : k \in 0..(RomLen + 1)} \cup {MkW(32768, 0)}

\* fseek(rom_file, rom_addr, SEEK_SET) takes a long, 32 bits wide on the
\* target: an offset from 0x80000000 on is negative and the seek fails
SeekOk(a) == a.hi < 32768

\* a status that calls every read that stored a byte a success
ReadStatus_some(n, size) == IF n > 0 THEN 0 ELSE -1

\* return (read == size) ? 0 : -1;
ReadStatus(n, size) == IF n = size THEN 0 ELSE -1

\* nsp_rom_init(rom_path); found tells whether fopen succeeds
nsp_rom_init(found) ==
    /\ rom_file' = IF found THEN "open" ELSE "NULL"
    /\ rom_pos' = 0
    /\ UNCHANGED <<ram, rom_ret, rom_got, dma_ret, rom_req>>

\* nsp_rom_close()
nsp_rom_close ==
    /\ rom_file' = "NULL"
    /\ rom_pos' = IF rom_file = "open" THEN 0 ELSE rom_pos
    /\ UNCHANGED <<ram, rom_ret, rom_got, dma_ret, rom_req>>

\* nsp_rom_read(rom_addr, dest, size), dest being ram: the result of fseek
\* is not looked at, fread stores what the file holds from the position on
nsp_rom_read(rom_addr, size) ==
    /\ rom_req' = [addr |-> rom_addr, size |-> size]
    /\ IF rom_file = "NULL"
       THEN /\ rom_ret' = -1
            /\ rom_got' = 0
            /\ UNCHANGED <<rom_file, rom_pos, ram>>
       ELSE LET pos == IF SeekOk(rom_addr) THEN rom_addr.lo ELSE rom_pos
                left == IF RomLen > pos THEN RomLen - pos ELSE 0
                n == IF size < left THEN size ELSE left
            IN  /\ ram' = [i \in DOMAIN ram |->
                              IF i <= n THEN RomBytes[pos + i] ELSE ram[i]]
                /\ rom_pos' = pos + n
                /\ rom_got' = n
                /\ rom_ret' = ReadStatus(n, size)
                /\ UNCHANGED rom_file

\* return nsp_rom_read(vrom, ram, size);
DmaMgr_RequestSync(vrom, size) ==
    /\ nsp_rom_read(vrom, size)
    /\ dma_ret' = rom_ret'

DmaMgr_RequestAsync(vrom, size) ==
    /\ nsp_rom_read(vrom, size)
    /\ dma_ret' = rom_ret'

DmaMgr_SendRequestImpl(vrom, size) ==
    /\ nsp_rom_read(vrom, size)
    /\ dma_ret' = rom_ret'

\* everything but the ROM stream and the destination buffer
nonrom_vars ==
    <<Mem, BufEnd, dl, dl_stack, dl_stack_top, nsp_segments, segment_table,
      pc, visited, stk_idx, seg_idx, ret, submitted, frame_vars, main_vars,
      mq_vars, pad_vars>>

RomInitCall ==
    \E found \in BOOLEAN :
        /\ nsp_rom_init(found)
        /\ rom_op' = "nsp_rom_init"
        /\ UNCHANGED nonrom_vars

RomClose ==
    /\ nsp_rom_close
    /\ rom_op' = "nsp_rom_close"
    /\ UNCHANGED nonrom_vars

RomRead ==
    \E a \in RomAddrs, size \in 0..MaxRead :
        /\ nsp_rom_read(a, size)
        /\ rom_op' = "nsp_rom_read"
        /\ UNCHANGED <<dma_ret, nonrom_vars>>

DmaSync ==
    \E a \in RomAddrs, size \in 0..MaxRead :
        /\ DmaMgr_RequestSync(a, size)
        /\ rom_op' = "DmaMgr_RequestSync"
        /\ UNCHANGED nonrom_vars

DmaAsync ==
    \E a \in RomAddrs, size \in 0..MaxRead :
        /\ DmaMgr_RequestAsync(a, size)
        /\ rom_op' = "DmaMgr_RequestAsync"
        /\ UNCHANGED nonrom_vars

DmaSendRequestImpl ==
    \E a \in RomAddrs, size \in 0..MaxRead :
        /\ DmaMgr_SendRequestImpl(a, size)
        /\ rom_op' = "DmaMgr_SendRequestImpl"
        /\ UNCHANGED nonrom_vars

InitRom == InitWith({ChainProgram(0)}) /\ QuietMem

NextRom ==
    \/ RomInitCall
    \/ RomClose
    \/ RomRead
    \/ DmaSync
    \/ DmaAsync
    \/ DmaSendRequestImpl

SpecRom == InitRom /\ [][NextRom]_vars

(* ---------------- C38 ---------------- *)
C38_ReadOps ==
    {"nsp_rom_read", "DmaMgr_RequestSync", "DmaMgr_RequestAsync",
     "DmaMgr_SendRequestImpl"}

====
